---- MODULE Spec2Model ----
(***************************************************************************)
(* A model of the two pipelines of the repository:                         *)
(*   update_tree.py                    pages -> rows -> tree -> Mermaid    *)
(*   update_tree_svg_block_replace.py  pages -> rows -> tree -> Newick     *)
(* A Python str is a sequence of one-character strings, so that lower(),   *)
(* strip(), split(), replace() and the sort key are computed character by  *)
(* character.  None is the one-element sequence <<"None">>, whose element  *)
(* is no character.                                                        *)
(***************************************************************************)
EXTENDS Integers, Sequences, FiniteSets, TLC

(* script      which of the two scripts runs
   rank_keys   RANK_KEYS, the configured Rank Schema (update_tree.py:21)
   pages       main: pages, what query_all_database returned
   rows        main: rows
   tree        main: tree
   WIKI_CACHE  the module-level WIKI_CACHE (update_tree.py:91)
   mermaid     the strings render_mermaid_with_links returned, one per call
   newick      the strings build_newick returned, one per call
   now         the clock datetime.utcnow() reads
   pc          where main stands *)
VARIABLES script, rank_keys, pages, rows, tree, WIKI_CACHE, mermaid, newick, now, pc

vars == <<script, rank_keys, pages, rows, tree, WIKI_CACHE, mermaid, newick, now, pc>>

(* ------------------------------- bounds ------------------------------- *)

\* most pages the database query returns in one run
MaxPages == 2

(* --------------------------- Python strings --------------------------- *)

None == <<"None">>

\* Python truthiness of an Optional[str]: None and "" are falsy
Falsy(v) == v = None \/ v = <<>>

UpperCase == <<"A","B","C","D","E","F","G","H","I","J","K","L","M",
               "N","O","P","Q","R","S","T","U","V","W","X","Y","Z">>

LowerCase == <<"a","b","c","d","e","f","g","h","i","j","k","l","m",
               "n","o","p","q","r","s","t","u","v","w","x","y","z">>

Digits == <<"0","1","2","3","4","5","6","7","8","9">>

\* the printable ASCII characters the model's strings use, in code-point order
Ascii == <<" ","!","\"","#","$","%","&","'","(",")","*","+",",","-",".","/">>
         \o Digits \o <<":",";","<","=",">","?","@">> \o UpperCase
         \o <<"[","\\","]","^","_">> \o LowerCase \o <<"{","|","}","~">>

Range(s) == {s[i] : i \in DOMAIN s}

\* the rank of ord(c) among the characters of Ascii
OrdTable == [c \in Range(Ascii) |-> CHOOSE i \in DOMAIN Ascii : Ascii[i] = c]

Ord(c) == OrdTable[c]

\* str.lower() on one character
LowerTable ==
  [c \in Range(Ascii) |->
     IF c \in Range(UpperCase)
     THEN LowerCase[CHOOSE i \in DOMAIN UpperCase : UpperCase[i] = c]
     ELSE c]

LowerChar(c) == IF c \in DOMAIN LowerTable THEN LowerTable[c] ELSE c

\* str.lower()
lower(s) == [i \in DOMAIN s |-> LowerChar(s[i])]

\* str.isalnum() on one character
Alnum == Range(UpperCase) \cup Range(LowerCase) \cup Range(Digits)

isalnum(c) == c \in Alnum

\* the characters str.strip() and str.split() treat as whitespace
Whitespace == {" ", "\t", "\n", "\r"}

\* Python's < on two str: lexicographic by code point
RECURSIVE StrLess(_, _)
StrLess(s, t) ==
  IF t = <<>> THEN FALSE
  ELSE IF s = <<>> THEN TRUE
  ELSE IF Head(s) = Head(t) THEN StrLess(Tail(s), Tail(t))
  ELSE Ord(Head(s)) < Ord(Head(t))

\* s[:n]
Take(s, n) == SubSeq(s, 1, IF Len(s) < n THEN Len(s) ELSE n)

\* str.split(): the maximal runs of non-whitespace characters, in order
RECURSIVE SplitFrom(_, _, _)
SplitFrom(s, word, acc) ==
  IF s = <<>>
  THEN IF word = <<>> THEN acc ELSE Append(acc, word)
  ELSE IF Head(s) \in Whitespace
       THEN SplitFrom(Tail(s), <<>>, IF word = <<>> THEN acc ELSE Append(acc, word))
       ELSE SplitFrom(Tail(s), Append(word, Head(s)), acc)

split(s) == SplitFrom(s, <<>>, <<>>)

\* sep.join(parts)
RECURSIVE join(_, _)
join(sep, parts) ==
  IF parts = <<>> THEN <<>>
  ELSE IF Len(parts) = 1 THEN parts[1]
  ELSE parts[1] \o sep \o join(sep, Tail(parts))

\* str.strip()
RECURSIVE lstrip(_)
lstrip(s) == IF s # <<>> /\ Head(s) \in Whitespace THEN lstrip(Tail(s)) ELSE s

RECURSIVE rstrip(_)
rstrip(s) ==
  IF s # <<>> /\ s[Len(s)] \in Whitespace THEN rstrip(SubSeq(s, 1, Len(s) - 1)) ELSE s

strip(s) == rstrip(lstrip(s))

\* str.replace(old, new) for a one-character old
RECURSIVE replace(_, _, _)
replace(s, old, new) ==
  IF s = <<>> THEN <<>>
  ELSE (IF Head(s) = old THEN new ELSE <<Head(s)>>) \o replace(Tail(s), old, new)

(* ---------------------------- configuration --------------------------- *)

Kingdom == <<"K","i","n","g","d","o","m">>
Phylum  == <<"P","h","y","l","u","m">>
Class   == <<"C","l","a","s","s">>
Order   == <<"O","r","d","e","r">>
Family  == <<"F","a","m","i","l","y">>
Genus   == <<"G","e","n","u","s">>
Species == <<"S","p","e","c","i","e","s">>

RANK_KEYS == <<Kingdom, Phylum, Class, Order, Family, Genus, Species>>

\* the Rank Schema of the specification's round-trip scenario
ScenarioSchema == <<Kingdom, Phylum, Species>>

\* RANK_KEYS = [], a Rank Schema with no rank
EmptySchema == <<>>

Schemas == {RANK_KEYS, ScenarioSchema, EmptySchema}

UpdateTree == "update_tree.py"
SvgBlockReplace == "update_tree_svg_block_replace.py"

Scripts == {UpdateTree, SvgBlockReplace}

(* ------------------------------ normalizer ---------------------------- *)

\* update_tree.py: normalize_name
normalize_name(s) ==
  IF Falsy(s) THEN None
  ELSE LET t == join(<<" ">>, split(strip(s))) IN IF t = <<>> THEN None ELSE t

\* update_tree_svg_block_replace.py: the normalisation inside extract_row_properties
normalize_inline(value) ==
  IF value # None THEN join(<<" ">>, split(strip(value))) ELSE value

(* A page is [id, props]: props maps a rank key to the string the property's
   type dispatch yields (None when the property is missing or empty).  A row
   is [v, pid]: v maps the lower-cased rank keys to the normalized values,
   pid is the "_notion_page_id" entry. *)
extract_row_properties(scr, keys, page) ==
  [v   |-> [k \in {lower(keys[i]) : i \in DOMAIN keys} |->
              LET key == CHOOSE key \in Range(keys) : lower(key) = k
                  value == page.props[key]
              IN IF scr = UpdateTree THEN normalize_name(value) ELSE normalize_inline(value)],
   pid |-> page.id]

\* dict.get(k) on a row
get(r, k) == IF k \in DOMAIN r.v THEN r.v[k] ELSE None

(* ------------------------------ deduplicator -------------------------- *)

\* x or ""
OrEmpty(v) == IF Falsy(v) THEN <<>> ELSE v

\* the tuple deduplicate_rows keys a row by
DedupKey(keys, r) == [i \in DOMAIN keys |-> OrEmpty(get(r, lower(keys[i])))]

RECURSIVE DedupLoop(_, _, _, _)
DedupLoop(keys, rs, seen, out) ==
  IF rs = <<>> THEN out
  ELSE LET key == DedupKey(keys, Head(rs)) IN
       IF key \in seen
       THEN DedupLoop(keys, Tail(rs), seen, out)
       ELSE DedupLoop(keys, Tail(rs), seen \cup {key}, Append(out, Head(rs)))

\* deduplicate_rows with the membership test inverted: "if key not in seen: continue"
RECURSIVE DedupLoopInverted(_, _, _, _)
DedupLoopInverted(keys, rs, seen, out) ==
  IF rs = <<>> THEN out
  ELSE LET key == DedupKey(keys, Head(rs)) IN
       IF key \notin seen
       THEN DedupLoopInverted(keys, Tail(rs), seen \cup {key}, out)
       ELSE DedupLoopInverted(keys, Tail(rs), seen, Append(out, Head(rs)))

deduplicate_rows_inverted(keys, rs) == DedupLoopInverted(keys, rs, {}, <<>>)

deduplicate_rows(keys, rs) == DedupLoop(keys, rs, {}, <<>>)

(* ---------------------------- hierarchy builder ----------------------- *)

(* A nested dict is the sequence of its items [k, v] in insertion order, v a
   nested dict again. *)
HasKey(node, k) == \E i \in DOMAIN node : node[i].k = k

\* the loop of build_tree with "continue" for "break": the truthy values of a row
RECURSIVE PathFrom_continuing(_, _, _)
PathFrom_continuing(keys, r, i) ==
  IF i > Len(keys) THEN <<>>
  ELSE LET v == get(r, lower(keys[i])) IN
       (IF Falsy(v) THEN <<>> ELSE <<v>>) \o PathFrom_continuing(keys, r, i + 1)

\* the values of a row rank by rank, up to the first falsy one (the break)
RECURSIVE PathFrom(_, _, _)
PathFrom(keys, r, i) ==
  IF i > Len(keys) THEN <<>>
  ELSE LET v == get(r, lower(keys[i])) IN
       IF Falsy(v) THEN <<>> ELSE <<v>> \o PathFrom(keys, r, i + 1)

\* the inner loop of build_tree without "if v not in node": node[v] = {} every time
RECURSIVE Descend_overwriting(_, _)
Descend_overwriting(node, path) ==
  IF path = <<>> THEN node
  ELSE IF HasKey(node, Head(path))
       THEN [i \in DOMAIN node |->
               IF node[i].k = Head(path)
               THEN [k |-> node[i].k, v |-> Descend_overwriting(<<>>, Tail(path))]
               ELSE node[i]]
       ELSE Append(node, [k |-> Head(path), v |-> Descend_overwriting(<<>>, Tail(path))])

\* the inner loop of build_tree: descend along path, creating missing keys
RECURSIVE Descend(_, _)
Descend(node, path) ==
  IF path = <<>> THEN node
  ELSE IF HasKey(node, Head(path))
       THEN [i \in DOMAIN node |->
               IF node[i].k = Head(path)
               THEN [k |-> node[i].k, v |-> Descend(node[i].v, Tail(path))]
               ELSE node[i]]
       ELSE Append(node, [k |-> Head(path), v |-> Descend(<<>>, Tail(path))])

RECURSIVE BuildLoop(_, _, _)
BuildLoop(keys, rs, t) ==
  IF rs = <<>> THEN t
  ELSE BuildLoop(keys, Tail(rs), Descend(t, PathFrom(keys, Head(rs), 1)))

build_tree(keys, rs) == BuildLoop(keys, rs, <<>>)

(* --------------------------- identity assigner ------------------------ *)

(* hashlib.sha1(...).hexdigest()[:10]: the digest is modelled as an injective
   function of the text it is taken of (the text itself); collisions of the
   truncated digest are not modelled. *)
sha1_hexdigest_10(name) == name

\* "".join(ch if ch.isalnum() else "_" for ch in name)
cleaned(name) == [i \in DOMAIN name |-> IF isalnum(name[i]) THEN name[i] ELSE "_"]

\* the part of name after its first "::", name itself when it has none
RECURSIVE AfterRank(_)
AfterRank(name) ==
  IF Len(name) < 2 THEN name
  ELSE IF name[1] = ":" /\ name[2] = ":" THEN SubSeq(name, 3, Len(name))
  ELSE IF \E i \in 1..(Len(name) - 1) : name[i] = ":" /\ name[i + 1] = ":"
       THEN AfterRank(Tail(name))
       ELSE name

\* safe_id of the node name alone, as if the caller left the rank out of the text
safe_id_rankless(name) ==
  [frag |-> Take(cleaned(AfterRank(name)), 20), h |-> sha1_hexdigest_10(AfterRank(name))]

\* safe_id: "n_" + cleaned[:20] + "_" + digest, as the pair of its two varying parts
safe_id(name) == [frag |-> Take(cleaned(name), 20), h |-> sha1_hexdigest_10(name)]

NoId == [frag |-> <<>>, h |-> <<>>]

(* ------------------------- external link lookup ----------------------- *)

(* What the MediaWiki search answers during one call of the renderer:
     "down"   every request raises, or has no hits
     "up"     every request has hits, and the title taken is the name
     "flaky"  the request for a Phylum raises, the others are as in "up"
   Which hit's title lines 124-131 take is not modelled: a hit gives some
   title, here the name. *)
NetModes == {"down", "up", "flaky"}

WikiBase == <<"https://en.wikipedia.org/wiki/">>

\* f"https://en.wikipedia.org/wiki/{quote(title.replace(' ', '_'))}"
WikiUrl(title) == WikiBase \o replace(title, " ", <<"_">>)

\* the url lines 117-139 compute from the response, None when they fall through
Response(net, name, rank_hint) ==
  CASE net = "down"  -> None
    [] net = "up"    -> WikiUrl(name)
    [] OTHER         -> IF rank_hint = Phylum THEN None ELSE WikiUrl(name)

\* x or '' for a rank
RankOrEmpty(rank) == IF Falsy(rank) THEN <<>> ELSE rank

\* wikipedia_search_url that never reads WIKI_CACHE: every call asks the network
wikipedia_search_url_uncached(name, rank_hint, cache, net) ==
  LET key == RankOrEmpty(rank_hint) \o <<"|","|">> \o name
      url == Response(net, name, rank_hint)
  IN [url |-> url, cache |-> (key :> url) @@ cache]

\* wikipedia_search_url: [url, cache], cache the WIKI_CACHE it leaves
wikipedia_search_url(name, rank_hint, cache, net) ==
  LET key == RankOrEmpty(rank_hint) \o <<"|","|">> \o name IN
  IF key \in DOMAIN cache
  THEN [url |-> cache[key], cache |-> cache]
  ELSE LET url == Response(net, name, rank_hint)
       IN [url |-> url, cache |-> (key :> url) @@ cache]

(* ----------------------------- graph serializer ----------------------- *)

(* A line of the Mermaid text, by its kind:
     stamp    "%% Generated <text>Z"            graph  "graph <text>"
     node     a["<text>"]                       edge   a --> b
     literal  <text>                            class  "class " + ids + " <text>;"
     click    click a "<text>" "<tip>"                                          *)
Line(kind, a, b, text) == [kind |-> kind, a |-> a, b |-> b, text |-> text, ids |-> <<>>, tip |-> ""]

NodeLine(nid, label) == Line("node", nid, NoId, label)

EdgeLine(parent_nid, nid) == Line("edge", parent_nid, nid, <<>>)

ClickLine(nid, url, tip) == [Line("click", nid, NoId, url) EXCEPT !.tip = tip]

ClassLine(ids, name) == [Line("class", NoId, NoId, name) EXCEPT !.ids = ids]

Literal(text) == Line("literal", NoId, NoId, <<text>>)

\* the literals "species", "phylum" and "genus" of render_mermaid_with_links
species == lower(Species)
phylum == lower(Phylum)
genus_key == lower(Genus)

\* sorted(subtree.items(), key=lambda x: x[0].lower()): a stable sort
RECURSIVE InsertSorted(_, _)
InsertSorted(sorted, item) ==
  IF sorted = <<>> THEN <<item>>
  ELSE IF StrLess(lower(item.k), lower(Head(sorted).k))
       THEN <<item>> \o sorted
       ELSE <<Head(sorted)>> \o InsertSorted(Tail(sorted), item)

RECURSIVE SortFrom(_, _)
SortFrom(items, sorted) ==
  IF items = <<>> THEN sorted ELSE SortFrom(Tail(items), InsertSorted(sorted, Head(items)))

\* sorted(...) left out: the items in the order the dict holds them
sorted_items_unsorted(subtree) == subtree

sorted_items(subtree) == SortFrom(subtree, <<>>)

\* species_page_by_name of render_mermaid_with_links: binomial -> page id
\* (every page has an id, so "if pid" holds)
RECURSIVE SpeciesPages(_, _)
SpeciesPages(rs, acc) ==
  IF rs = <<>> THEN acc
  ELSE LET r == Head(rs)
           spec == get(r, species)
           genus == get(r, genus_key)
       IN SpeciesPages(Tail(rs),
            IF ~Falsy(spec) /\ ~Falsy(genus)
            THEN ((genus \o <<" ">> \o spec) :> r.pid) @@ acc
            ELSE acc)

species_page_by_name(rs) == SpeciesPages(rs, [b \in {} |-> ""])

NotionBase == <<"https://www.notion.so/">>

\* "nid not in created_nodes" that forgets the ids already defined
not_in_created_nodes_forgetful(nid, created_nodes) == TRUE

\* walk: "if nid not in created_nodes"
not_in_created_nodes(nid, created_nodes) == nid \notin created_nodes

\* walk: label, for a rank and a node_name
walk_label(rank, node_name) ==
  IF ~Falsy(rank) /\ lower(rank) # species THEN rank \o <<":"," ">> \o node_name ELSE node_name

\* walk's label_escaped without the replace: the label as it is
label_escaped_unreplaced(rank, node_name) == walk_label(rank, node_name)

\* walk: label_escaped = label.replace('"', '\\"')
label_escaped(rank, node_name) == replace(walk_label(rank, node_name), "\"", <<"\\", "\"">>)

\* lines 309-333 of walk: the node's definition, class and click, once per id
DefineNode(env, rank, node_name, nid, st) ==
  LET isSpecies == ~Falsy(rank) /\ lower(rank) = species
      isPhylum == ~Falsy(rank) /\ lower(rank) = phylum
      wiki == wikipedia_search_url(node_name, rank, st.cache, env.net)
      hasPage == isSpecies /\ node_name \in DOMAIN env.pages
  IN [lines   |-> Append(st.lines, NodeLine(nid, label_escaped(rank, node_name))),
      created |-> st.created \cup {nid},
      phylum  |-> IF isPhylum THEN Append(st.phylum, nid) ELSE st.phylum,
      species |-> IF isSpecies THEN Append(st.species, nid) ELSE st.species,
      clicks  |-> IF hasPage
                  THEN Append(st.clicks,
                         ClickLine(nid, NotionBase \o <<env.pages[node_name]>>, "Open Notion page"))
                  ELSE IF ~Falsy(wiki.url)
                  THEN Append(st.clicks, ClickLine(nid, wiki.url, "Open Wikipedia"))
                  ELSE st.clicks,
      cache   |-> wiki.cache]

\* walk of render_mermaid_with_links, over the items still to visit
RECURSIVE walk_items(_, _, _, _, _)
walk_items(env, items, rank_index, parent_name, st) ==
  IF items = <<>> THEN st
  ELSE
    LET name == Head(items).k
        child == Head(items).v
        rank == IF rank_index < Len(env.keys) THEN env.keys[rank_index + 1] ELSE None
        node_name ==
          IF ~Falsy(rank) /\ lower(rank) = species /\ ~Falsy(parent_name)
          THEN parent_name \o <<" ">> \o name
          ELSE name
        nid == safe_id(RankOrEmpty(rank) \o <<":",":">> \o node_name)
        st1 == IF not_in_created_nodes(nid, st.created) THEN DefineNode(env, rank, node_name, nid, st) ELSE st
        parent_nid ==
          safe_id((IF rank_index > 0 THEN env.keys[rank_index] ELSE <<>>)
                  \o <<":",":">> \o parent_name)
        st2 == IF ~Falsy(parent_name)
               THEN [st1 EXCEPT !.lines = Append(@, EdgeLine(parent_nid, nid))]
               ELSE st1
        st3 == IF child # <<>>
               THEN walk_items(env, sorted_items(child), rank_index + 1, node_name, st2)
               ELSE st2
    IN walk_items(env, Tail(items), rank_index, parent_name, st3)

walk(env, subtree, rank_index, parent_name, st) ==
  walk_items(env, sorted_items(subtree), rank_index, parent_name, st)

GraphDir == <<"T","D">>

(* render_mermaid_with_links: [text, cache], text the lines of the returned
   string and cache the WIKI_CACHE the call leaves.  utcnow is the clock
   reading the first line carries. *)
render_mermaid_with_links(keys, t, rs, cache, net, utcnow) ==
  LET env == [keys |-> keys, pages |-> species_page_by_name(rs), net |-> net]
      st0 == [lines   |-> <<Line("stamp", NoId, NoId, <<utcnow>>), Line("graph", NoId, NoId, GraphDir)>>,
              created |-> {}, phylum |-> <<>>, species |-> <<>>, clicks |-> <<>>,
              cache   |-> cache]
      st == walk(env, t, 0, None, st0)
  IN [text |-> st.lines
               \o <<Literal(""), Literal("%% Styling"),
                    Literal("classDef phylum fill:#f0f0f0,stroke:#666,stroke-width:1px;"),
                    Literal("classDef species fill:#064e2a,stroke:#022a15,color:#ffffff,stroke-width:1px;")>>
               \o (IF st.phylum # <<>> THEN <<ClassLine(st.phylum, <<"phylum">>)>> ELSE <<>>)
               \o (IF st.species # <<>> THEN <<ClassLine(st.species, <<"species">>)>> ELSE <<>>)
               \o <<Literal(""), Literal("%% Click links")>>
               \o st.clicks,
      cache |-> st.cache]

(* ------------------------ nested-notation serializer ------------------ *)

\* the characters of the class [,\(\):;\s\'\"]
EscChars == {",", "(", ")", ":", ";", "'", "\""} \cup Whitespace

\* esc_label without s.replace("'", "''"): the quotes go around s as it is
esc_label_undoubled(s) ==
  IF \E i \in DOMAIN s : s[i] \in EscChars THEN <<"'">> \o s \o <<"'">> ELSE s

esc_label(s) ==
  IF \E i \in DOMAIN s : s[i] \in EscChars
  THEN <<"'">> \o replace(s, "'", <<"'", "'">>) \o <<"'">>
  ELSE s

RECURSIVE newick_items(_, _, _)
newick_items(keys, items, rank_index) ==
  IF items = <<>> THEN <<>>
  ELSE
    LET name == Head(items).k
        child == Head(items).v
        part ==
          IF child # <<>>
          THEN LET inner == join(<<",">>, newick_items(keys, sorted_items(child), rank_index + 1))
                   rank == IF rank_index < Len(keys) THEN keys[rank_index + 1] ELSE None
                   label == IF ~Falsy(rank) THEN rank \o <<":">> \o name ELSE name
               IN <<"(">> \o inner \o <<")">> \o esc_label(label)
          ELSE esc_label(replace(name, " ", <<"_">>))
    IN <<part>> \o newick_items(keys, Tail(items), rank_index)

nested_to_newick(keys, subtree, rank_index) ==
  join(<<",">>, newick_items(keys, sorted_items(subtree), rank_index))

\* build_newick without the closing semicolon
build_newick_unterminated(keys, t) == <<"(">> \o nested_to_newick(keys, t, 0) \o <<")">>

build_newick(keys, t) == <<"(">> \o nested_to_newick(keys, t, 0) \o <<")", ";">>

(* ------------------------------- inputs ------------------------------- *)

PageIds == <<"p1", "p2", "p3", "p4">>

\* the taxon name of the specification's label-escaping scenario
OBriensMoth == <<"O","'","B","r","i","e","n","'","s"," ","M","o","t","h">>

\* the same name as a page may carry it, with a run of two spaces inside
OBriensMothRaw == <<"O","'","B","r","i","e","n","'","s"," "," ","M","o","t","h">>

(* The raw values a page may carry for a rank: absent, blank, two spellings of
   one name that differ in case, trailing whitespace, a whitespace run inside
   a name, names with quote characters, one name at two ranks, and two
   different names at the last rank. *)
RawValues(keys, rank) ==
  IF keys = ScenarioSchema
  THEN CASE rank = Kingdom -> {None, <<"a">>, <<"A", " ">>}
         [] rank = Phylum  -> {None, <<"a">>}
         [] OTHER          -> {None, <<"a">>, <<"b">>}
  ELSE CASE rank = Kingdom -> {<<"a">>, <<"A", " ">>}
         [] rank = Phylum  -> {<<"c", "\"">>}
         [] rank = Class   -> {OBriensMothRaw}
         [] rank = Family  -> {None, <<" ">>, <<"c">>}
         [] rank = Genus   -> {<<"g">>}
         [] rank = Species -> {OBriensMoth}
         [] OTHER          -> {<<"c">>}

\* the property maps over the first n ranks of keys
RECURSIVE PropsUpTo(_, _)
PropsUpTo(keys, n) ==
  IF n = 0 THEN {[k \in {} |-> None]}
  ELSE {(keys[n] :> v) @@ p : p \in PropsUpTo(keys, n - 1), v \in RawValues(keys, keys[n])}

PropsOver(keys) == PropsUpTo(keys, Len(keys))

\* the page sequences of n pages, the i-th with the i-th page id
RECURSIVE PagesOfLen(_, _)
PagesOfLen(keys, n) ==
  IF n = 0 THEN {<<>>}
  ELSE {Append(ps, [id |-> PageIds[n], props |-> p]) :
          ps \in PagesOfLen(keys, n - 1), p \in PropsOver(keys)}

Animalia == <<"A","n","i","m","a","l","i","a">>
Chordata == <<"C","h","o","r","d","a","t","a">>
Mollusca == <<"M","o","l","l","u","s","c","a">>
Rex      == <<"R","e","x">>

\* the records of the specification's round-trip scenario
ScenarioPages ==
  << [id |-> PageIds[1],
      props |-> (Kingdom :> Animalia) @@ (Phylum :> Chordata) @@ (Species :> Rex)],
     [id |-> PageIds[2],
      props |-> (Kingdom :> Animalia) @@ (Phylum :> Mollusca) @@ (Species :> None)] >>

InputPages(keys) ==
  UNION {PagesOfLen(keys, n) : n \in 0..MaxPages}
  \cup (IF keys = ScenarioSchema THEN {ScenarioPages} ELSE {})

(* ------------------------------ state machine ------------------------- *)

\* load_wiki_cache when there is no cache file, or an unreadable one
EmptyCache == [k \in {} |-> None]

\* load_wiki_cache when an earlier run left a cache file: one link, one miss
LoadedCache ==
  ((Kingdom \o <<"|","|","a">>) :> WikiUrl(<<"o","l","d">>))
  @@ ((Phylum \o <<"|","|","a">>) :> None)

\* WIKI_CACHE = load_wiki_cache(), which only update_tree.py has
load_wiki_cache(scr) == IF scr = UpdateTree THEN {EmptyCache, LoadedCache} ELSE {EmptyCache}

Init ==
  /\ script \in Scripts
  /\ rank_keys \in Schemas
  /\ pages \in InputPages(rank_keys)
  /\ rows = <<>>
  /\ tree = <<>>
  /\ WIKI_CACHE \in load_wiki_cache(script)
  /\ mermaid = <<>>
  /\ newick = <<>>
  /\ now = 0
  /\ pc = "query"

\* main: rows = [extract_row_properties(p) for p in pages]
Extract ==
  /\ pc = "query"
  /\ rows' = [i \in DOMAIN pages |-> extract_row_properties(script, rank_keys, pages[i])]
  /\ pc' = "extracted"
  /\ UNCHANGED <<script, rank_keys, pages, tree, WIKI_CACHE, mermaid, newick, now>>

\* main: rows = deduplicate_rows(rows)
Dedup ==
  /\ pc = "extracted"
  /\ rows' = deduplicate_rows(rank_keys, rows)
  /\ pc' = "deduped"
  /\ UNCHANGED <<script, rank_keys, pages, tree, WIKI_CACHE, mermaid, newick, now>>

\* main: tree = build_tree(rows)
Build ==
  /\ pc = "deduped"
  /\ tree' = build_tree(rank_keys, rows)
  /\ pc' = "built"
  /\ UNCHANGED <<script, rank_keys, pages, rows, WIKI_CACHE, mermaid, newick, now>>

\* main: mermaid = render_mermaid_with_links(tree, rows, graph_dir="TD"), and
\* one more call of it on the same tree
RenderMermaid ==
  /\ pc \in {"built", "rendered"}
  /\ script = UpdateTree
  /\ \E net \in NetModes :
       LET r == render_mermaid_with_links(rank_keys, tree, rows, WIKI_CACHE, net, now) IN
       /\ mermaid' = Append(mermaid, r.text)
       /\ WIKI_CACHE' = r.cache
  /\ now' = now + 1
  /\ pc' = IF pc = "built" THEN "rendered" ELSE "rendered again"
  /\ UNCHANGED <<script, rank_keys, pages, rows, tree, newick>>

\* main: newick = build_newick(tree), and one more call of it on the same tree
BuildNewick ==
  /\ pc \in {"built", "rendered"}
  /\ script = SvgBlockReplace
  /\ newick' = Append(newick, build_newick(rank_keys, tree))
  /\ pc' = IF pc = "built" THEN "rendered" ELSE "rendered again"
  /\ UNCHANGED <<script, rank_keys, pages, rows, tree, WIKI_CACHE, mermaid, now>>

Next == Extract \/ Dedup \/ Build \/ RenderMermaid \/ BuildNewick

Spec == Init /\ [][Next]_vars

(* ------------------------------- properties --------------------------- *)

Built == pc \in {"built", "rendered", "rendered again"}

Deduped == pc = "deduped" \/ Built

Rendered == pc \in {"rendered", "rendered again"}

\* the rows main hands to deduplicate_rows
ExtractedRows == [i \in DOMAIN pages |-> extract_row_properties(script, rank_keys, pages[i])]

\* the value of row r at the i-th rank
ValueAt(r, i) == get(r, lower(rank_keys[i]))

\* the values of row r that are present, in rank order
RECURSIVE PresentFrom(_, _)
PresentFrom(r, i) ==
  IF i > Len(rank_keys) THEN <<>>
  ELSE (IF Falsy(ValueAt(r, i)) THEN <<>> ELSE <<ValueAt(r, i)>>) \o PresentFrom(r, i + 1)

\* the nested dict has the chain of keys path from its root
RECURSIVE HasPath(_, _)
HasPath(node, path) ==
  \/ path = <<>>
  \/ \E i \in DOMAIN node : node[i].k = Head(path) /\ HasPath(node[i].v, Tail(path))

\* the chains of keys from the root of a nested dict to each of its nodes
RECURSIVE PathsOf(_)
PathsOf(node) ==
  UNION {{<<node[i].k>>} \cup {<<node[i].k>> \o p : p \in PathsOf(node[i].v)} : i \in DOMAIN node}

(* C1: build_tree skips absent ranks without stopping: for every record, each
   present value has a node attached under the node of the nearest earlier
   present rank of the record, or under the root when there is none; so the
   chain of the record's present values is a chain of the tree. *)
C1_SkipsAbsentRanks ==
  Built => \A i \in DOMAIN rows : HasPath(tree, PresentFrom(rows[i], 1))

(* C2: first-parent-wins: a taxon (rank, name) that two records place under
   different parents is attached under one parent only, in the built tree
   (the nodes at one depth with one name have one parent name) and in the
   rendered graph (the edge lines into one id leave one id). *)
C2_FirstParentWins ==
  (Rendered /\ script = UpdateTree) =>
    /\ \A p, q \in PathsOf(tree) :
         (Len(p) = Len(q) /\ Len(p) > 1 /\ p[Len(p)] = q[Len(q)])
           => p[Len(p) - 1] = q[Len(q) - 1]
    /\ \A c \in DOMAIN mermaid : \A i, j \in DOMAIN mermaid[c] :
         (mermaid[c][i].kind = "edge" /\ mermaid[c][j].kind = "edge"
            /\ mermaid[c][i].b = mermaid[c][j].b)
           => mermaid[c][i].a = mermaid[c][j].a

\* row r carries a value at each of the first d ranks
FullTo(r, d) == \A e \in 1..d : ~Falsy(ValueAt(r, e))

(* C3: global identity: two records that carry the same value at the same rank
   are routed through one and the same node.  A node of the nested dict is the
   chain of keys that leads to it, so the two records' chains down to that
   rank are the same chain.  Stated for records with no absent rank above the
   shared one, which build_tree routes down to it. *)
C3_GlobalIdentity ==
  Built =>
    \A i, j \in DOMAIN rows : \A d \in DOMAIN rank_keys :
      (FullTo(rows[i], d) /\ FullTo(rows[j], d) /\ ValueAt(rows[i], d) = ValueAt(rows[j], d))
        => Take(PathFrom(rank_keys, rows[i], 1), d) = Take(PathFrom(rank_keys, rows[j], 1), d)

\* two records have equal values for every rank; absent equals only absent
SameRanks(r1, r2) == \A i \in DOMAIN rank_keys : ValueAt(r1, i) = ValueAt(r2, i)

\* the records with no earlier duplicate, in their original order
RECURSIVE FirstOfEachClass(_, _)
FirstOfEachClass(rs, n) ==
  IF n = 0 THEN <<>>
  ELSE FirstOfEachClass(rs, n - 1)
       \o (IF \E j \in 1..(n - 1) : SameRanks(rs[j], rs[n]) THEN <<>> ELSE <<rs[n]>>)

(* C4: deduplicate_rows returns the records in their original order, keeps the
   first of each duplicate class and drops the rest; two records are duplicates
   iff their values are equal for every rank, absent equal to absent only. *)
C4_DedupFirstOfEachClass ==
  Deduped => rows = FirstOfEachClass(ExtractedRows, Len(ExtractedRows))

\* the same under update_tree.py alone, whose normalize_name never yields ""
DedupFirstOfEachClass_UpdateTree == script = UpdateTree => C4_DedupFirstOfEachClass

(* C5: the output of deduplicate_rows is no longer than its input (one row per
   page), and deduplicate_rows maps its own output to itself.  rows is the
   output from the call on; nothing writes it afterwards. *)
C5_DedupShorterIdempotent ==
  pc = "deduped" =>
    /\ Len(rows) <= Len(pages)
    /\ deduplicate_rows(rank_keys, rows) = rows

\* a run in which deduplicate_rows dropped a record and kept another
C5_Witness ==
  /\ pc = "deduped"
  /\ Len(rows) >= 1
  /\ Len(rows) < Len(pages)

\* the name walk gives the node at the end of a chain of keys
RECURSIVE NodeNameOf(_)
NodeNameOf(path) ==
  IF Len(path) > 1 /\ Len(path) <= Len(rank_keys) /\ lower(rank_keys[Len(path)]) = species
  THEN NodeNameOf(SubSeq(path, 1, Len(path) - 1)) \o <<" ">> \o path[Len(path)]
  ELSE path[Len(path)]

\* the id walk gives the node at the end of a chain of keys
IdOf(path) ==
  safe_id((IF Len(path) <= Len(rank_keys) THEN rank_keys[Len(path)] ELSE <<>>)
          \o <<":",":">> \o NodeNameOf(path))

ParentOf(path) == SubSeq(path, 1, Len(path) - 1)

LinesOf(text, kind) == {i \in DOMAIN text : text[i].kind = kind}

(* C6: in the graph output every node of the tree has exactly one
   node-definition line, and that line comes before every edge line that names
   the node's id as source or target. *)
C6_OneDefinitionBeforeEdges ==
  (Rendered /\ script = UpdateTree) =>
    \A c \in DOMAIN mermaid : \A nid \in {IdOf(p) : p \in PathsOf(tree)} :
      LET text == mermaid[c]
          defs == {i \in LinesOf(text, "node") : text[i].a = nid}
      IN /\ Cardinality(defs) = 1
         /\ \A i \in defs : \A j \in LinesOf(text, "edge") :
              (text[j].a = nid \/ text[j].b = nid) => i < j

\* a rendered tree in which one id belongs to nodes under two parents, with edges
C6_Witness ==
  /\ Rendered /\ script = UpdateTree
  /\ \E p, q \in PathsOf(tree) : p # q /\ IdOf(p) = IdOf(q)
  /\ \E c \in DOMAIN mermaid : LinesOf(mermaid[c], "edge") # {}

(* C7: in the graph output every parent-to-child relationship of the tree has
   exactly one edge line <parent-id> --> <child-id>: none is missing and no
   pair of ids is on two edge lines. *)
C7_OneEdgePerRelationship ==
  (Rendered /\ script = UpdateTree) =>
    \A c \in DOMAIN mermaid : \A p \in PathsOf(tree) :
      Len(p) > 1 =>
        Cardinality({i \in LinesOf(mermaid[c], "edge") :
                       mermaid[c][i].a = IdOf(ParentOf(p)) /\ mermaid[c][i].b = IdOf(p)}) = 1

Leaf(name) == [k |-> name, v |-> <<>>]

(* C8: round-trip scenario: with Rank Schema [Kingdom, Phylum, Species] and
   records [{Animalia, Chordata, Rex}, {Animalia, Mollusca}] the tree has one
   root child Animalia with children Chordata and Mollusca, Rex is the only
   child of Chordata, Mollusca has no children, and the graph output has
   exactly 4 node-definition lines and exactly 3 edge lines. *)
C8_RoundTripScenario ==
  (pages = ScenarioPages /\ Built) =>
    /\ tree = << [k |-> Animalia,
                  v |-> << [k |-> Chordata, v |-> <<Leaf(Rex)>>], Leaf(Mollusca) >>] >>
    /\ \A c \in DOMAIN mermaid :
         /\ Cardinality(LinesOf(mermaid[c], "node")) = 4
         /\ Cardinality(LinesOf(mermaid[c], "edge")) = 3

\* the scenario's records, built and rendered
C8_Witness ==
  /\ pages = ScenarioPages /\ rank_keys = ScenarioSchema
  /\ pc = "rendered" /\ script = UpdateTree
  /\ Len(mermaid) = 1

\* the sequences that hold the rows of rs in some order
Reorderings(rs) ==
  {[i \in DOMAIN rs |-> rs[f[i]]] : f \in Permutations(DOMAIN rs)}

\* the graph text without its timestamp line
Body(text) == Tail(text)

(* C9: the graph text and the nested-notation text are functions of the set of
   deduplicated, normalized records and the Rank Schema: the same records in
   another order give the same text, apart from the timestamp line, whatever
   the link lookup answers. *)
C9_OrderIndependent ==
  Rendered =>
    \A rs \in Reorderings(rows) :
      /\ build_newick(rank_keys, build_tree(rank_keys, rs)) = build_newick(rank_keys, tree)
      /\ \A net \in NetModes :
           Body(render_mermaid_with_links(rank_keys, build_tree(rank_keys, rs), rs,
                                          EmptyCache, net, now).text)
           = Body(render_mermaid_with_links(rank_keys, tree, rows, EmptyCache, net, now).text)

(* C10: two calls of render_mermaid_with_links, or of build_newick, on the same
   tree return the same text apart from the timestamp line, whatever the link
   lookup answered during the first call and the second. *)
C10_RepeatableOutput ==
  pc = "rendered again" =>
    /\ script = UpdateTree => Body(mermaid[1]) = Body(mermaid[2])
    /\ script = SvgBlockReplace => newick[1] = newick[2]

\* two calls were made, one lookup failed and another gave a link
C10_Witness ==
  /\ pc = "rendered again" /\ script = UpdateTree
  /\ mermaid[1][1] # mermaid[2][1]
  /\ LinesOf(mermaid[2], "click") # {}
  /\ \E k \in DOMAIN WIKI_CACHE : WIKI_CACHE[k] = None

\* the nested dicts that hold the items of node, level by level, in some order
RECURSIVE Orderings(_)
Orderings(node) ==
  IF node = <<>> THEN {<<>>}
  ELSE LET below == [i \in DOMAIN node |-> Orderings(node[i].v)]
           choices == {g \in [DOMAIN node -> UNION Range(below)] :
                         \A i \in DOMAIN node : g[i] \in below[i]}
       IN {[i \in DOMAIN node |-> [k |-> node[f[i]].k, v |-> g[f[i]]]] :
             f \in Permutations(DOMAIN node), g \in choices}

\* at every level the names are in ascending case-insensitive lexical order
RECURSIVE Ascending(_)
Ascending(t) ==
  /\ \A i \in 1..(Len(t) - 1) : ~StrLess(lower(t[i + 1].k), lower(t[i].k))
  /\ \A i \in DOMAIN t : Ascending(t[i].v)

\* the ids of the nodes of t, parents before children, siblings in t's order
RECURSIVE PreorderIds(_, _)
PreorderIds(t, prefix) ==
  IF t = <<>> THEN <<>>
  ELSE LET p == Append(prefix, Head(t).k)
       IN <<IdOf(p)>> \o PreorderIds(Head(t).v, p) \o PreorderIds(Tail(t), prefix)

(* The ids in the order the graph text visits them: a visit of a node under a
   parent writes an edge line to it, a visit of a top-level node writes its
   node-definition line (roots holds the top-level ids). *)
RECURSIVE GraphVisits(_, _)
GraphVisits(text, roots) ==
  IF text = <<>> THEN <<>>
  ELSE LET l == Head(text)
       IN (IF l.kind = "edge" THEN <<l.b>>
           ELSE IF l.kind = "node" /\ l.a \in roots THEN <<l.a>>
           ELSE <<>>)
          \o GraphVisits(Tail(text), roots)

\* the rank the serializers take the node at the end of a chain of keys to have
RankOf(path) == rank_keys[Len(path)]

\* comma, parentheses, colon, semicolon, whitespace and the two quote characters
SpecialChars == {",", "(", ")", ":", ";", " ", "\t", "\n", "\r", "'", "\""}

\* s with every single quote written twice
RECURSIVE Doubled(_)
Doubled(s) ==
  IF s = <<>> THEN <<>>
  ELSE (IF Head(s) = "'" THEN <<"'", "'">> ELSE <<Head(s)>>) \o Doubled(Tail(s))

\* a label as the nested notation is to write it
Quoted(s) ==
  IF Range(s) \cap SpecialChars # {} THEN <<"'">> \o Doubled(s) \o <<"'">> ELSE s

\* the label of the node at the end of a chain of keys, with or without children
NewickLabel(path, hasChildren) ==
  IF hasChildren THEN RankOf(path) \o <<":">> \o path[Len(path)]
  ELSE [i \in DOMAIN path[Len(path)] |->
          IF path[Len(path)][i] = " " THEN "_" ELSE path[Len(path)][i]]

(* The nested-notation grammar over a nested dict t whose items are in the
   order to emit, t's items being the children of the node at the end of
   prefix: a node with children is (<child expressions, comma-separated>)<label>
   with label <rank>:<name>, a node without children is its name with spaces
   replaced by underscores; labels are written quoted where they need it. *)
RECURSIVE Expressions(_, _)
Expressions(t, prefix) ==
  [i \in DOMAIN t |->
     LET p == Append(prefix, t[i].k) IN
     IF t[i].v # <<>>
     THEN <<"(">> \o join(<<",">>, Expressions(t[i].v, p)) \o <<")">>
          \o Quoted(NewickLabel(p, TRUE))
     ELSE Quoted(NewickLabel(p, FALSE))]

\* one parenthesized expression ending in a semicolon
Expression(t) == <<"(">> \o join(<<",">>, Expressions(t, <<>>)) \o <<")", ";">>

\* the graph text of the tree: the one the run rendered, or a rendering of it
GraphOfTree ==
  IF script = UpdateTree THEN mermaid[1]
  ELSE render_mermaid_with_links(rank_keys, tree, rows, EmptyCache, "down", now).text

\* the nested-notation text of the tree: the one the run built, or a building of it
NewickOfTree ==
  IF script = SvgBlockReplace THEN newick[1] ELSE build_newick(rank_keys, tree)

(* C11: both serializers visit the tree depth-first and emit the children of
   every node in ascending case-insensitive lexical order of name, and the
   siblings are in the same order in the graph text and in the
   nested-notation text: one ordering of the tree's levels is ascending, is
   the order of the nested-notation text, and is the parents-first order in
   which the graph text visits the nodes. *)
C11_SameAscendingSiblingOrder ==
  pc = "rendered" =>
    \E t \in Orderings(tree) :
      /\ Ascending(t)
      /\ NewickOfTree = Expression(t)
      /\ GraphVisits(GraphOfTree, {IdOf(<<tree[i].k>>) : i \in DOMAIN tree}) = PreorderIds(t, <<>>)

\* a rendered tree that holds two siblings below the top level in descending order
C11_Witness ==
  /\ pc = "rendered"
  /\ \E i \in DOMAIN tree : \E j \in DOMAIN tree[i].v :
       LET level == tree[i].v[j].v
       IN Len(level) = 2 /\ StrLess(lower(level[2].k), lower(level[1].k))

\* the node-definition lines of text for the id nid
DefsOf(text, nid) == {i \in LinesOf(text, "node") : text[i].a = nid}

\* s with a backslash put before every double-quote character
QuotesEscaped(s) == replace(s, "\"", <<"\\", "\"">>)

\* the rank is the most specific one, Species
MostSpecific(rank) == lower(rank) = species

(* C12: in the graph output the label of a node is its name with every
   double-quote character escaped, prefixed with "<Rank>: " for every rank
   except Species, whose label is the bare name with nothing added. *)
C12_LabelBareSpecies ==
  (pc = "rendered" /\ script = UpdateTree) =>
    \A p \in PathsOf(tree) : \E i \in DefsOf(mermaid[1], IdOf(p)) :
      mermaid[1][i].text =
        QuotesEscaped(IF MostSpecific(RankOf(p)) THEN p[Len(p)]
                      ELSE RankOf(p) \o <<":", " ">> \o p[Len(p)])

(* C12, amended: as above, but the label of a Species node is the name of its
   parent node, a space and its own name (the binomial) when it has a parent,
   and its bare name when it is a top-level node; the double-quote characters
   of the whole label are escaped. *)
C12_LabelBinomialSpecies ==
  (pc = "rendered" /\ script = UpdateTree) =>
    \A p \in PathsOf(tree) : \E i \in DefsOf(mermaid[1], IdOf(p)) :
      mermaid[1][i].text =
        QuotesEscaped(IF MostSpecific(RankOf(p))
                      THEN (IF Len(p) > 1 THEN p[Len(p) - 1] \o <<" ">> ELSE <<>>) \o p[Len(p)]
                      ELSE RankOf(p) \o <<":", " ">> \o p[Len(p)])

\* a rendered tree with a Species node under a parent and a name that holds a double quote
C12_Witness ==
  /\ pc = "rendered" /\ script = UpdateTree
  /\ \E p \in PathsOf(tree) : Len(p) > 1 /\ MostSpecific(RankOf(p))
  /\ \E p \in PathsOf(tree) : "\"" \in Range(p[Len(p)])

(* C13: build_newick returns one parenthesized expression ending in a
   semicolon, in which every node with children is written
   (<comma-separated child expressions>)<label> with label <rank>:<name> and
   every node without children is written as its name with internal spaces
   replaced by underscores, the children of a node in some order; labels are
   quoted where the nested notation requires it. *)
C13_NewickGrammar ==
  (pc = "rendered" /\ script = SvgBlockReplace) =>
    \E t \in Orderings(tree) : newick[1] = Expression(t)

\* a tree with two top-level nodes, a node seven ranks deep and a leaf name with a space
C13_Witness ==
  /\ pc = "rendered" /\ script = SvgBlockReplace
  /\ Len(tree) = 2
  /\ \E p \in PathsOf(tree) : Len(p) = Len(RANK_KEYS) /\ " " \in Range(p[Len(p)])

\* sub occurs in text between two of the separators "(", "," and ")"
OccursDelimited(text, sub) ==
  \E i \in 2..(Len(text) - Len(sub)) :
    /\ SubSeq(text, i, i + Len(sub) - 1) = sub
    /\ text[i - 1] \in {"(", ",", ")"}
    /\ text[i + Len(sub)] \in {",", ")"}

\* the node at the end of a chain of keys of the tree has children
HasChildren(path) == \E q \in PathsOf(tree) : Len(q) = Len(path) + 1 /\ ParentOf(q) = path

(* C14: in the nested-notation output every label that contains a comma,
   parenthesis, colon, semicolon, whitespace or quote character is wrapped in
   single quotes with each internal single quote doubled, and every other
   label is emitted unchanged; the leaf O'Brien's Moth appears as
   'O''Brien''s_Moth'. *)
C14_LabelsQuotedWhereNeeded ==
  (pc = "rendered" /\ script = SvgBlockReplace) =>
    /\ \A p \in PathsOf(tree) :
         OccursDelimited(newick[1], Quoted(NewickLabel(p, HasChildren(p))))
    /\ \A p \in PathsOf(tree) :
         (p[Len(p)] = OBriensMoth /\ ~HasChildren(p)) =>
           OccursDelimited(newick[1],
             <<"'","O","'","'","B","r","i","e","n","'","'","s","_","M","o","t","h","'">>)

\* a leaf O'Brien's Moth, and a leaf whose label needs no quotes
C14_Witness ==
  /\ pc = "rendered" /\ script = SvgBlockReplace
  /\ \E p \in PathsOf(tree) : p[Len(p)] = OBriensMoth /\ ~HasChildren(p)
  /\ \E p \in PathsOf(tree) :
       ~HasChildren(p) /\ Quoted(NewickLabel(p, FALSE)) = NewickLabel(p, FALSE)

\* the maximal runs of characters of s that are not whitespace, in order
RECURSIVE Words(_, _)
Words(s, word) ==
  IF s = <<>> THEN (IF word = <<>> THEN <<>> ELSE <<word>>)
  ELSE IF Head(s) \in {" ", "\t", "\n", "\r"}
       THEN (IF word = <<>> THEN <<>> ELSE <<word>>) \o Words(Tail(s), <<>>)
       ELSE Words(Tail(s), Append(word, Head(s)))

\* the words of raw with one space between them; absent when there is no word
Normalized(raw) ==
  IF raw = None \/ Words(raw, <<>>) = <<>> THEN None ELSE join(<<" ">>, Words(raw, <<>>))

(* C15: record extraction, in both scripts, maps every raw value to its text
   with each whitespace run collapsed to one space and leading and trailing
   whitespace removed, and maps an absent, empty or all-whitespace value to
   absent, never to an empty string. *)
C15_NormalizerBlankToAbsent ==
  pc = "extracted" =>
    \A i \in DOMAIN rows : \A k \in DOMAIN rank_keys :
      ValueAt(rows[i], k) = Normalized(pages[i].props[rank_keys[k]])

\* the same under update_tree.py alone, which extracts through normalize_name
NormalizerBlankToAbsent_UpdateTree == script = UpdateTree => C15_NormalizerBlankToAbsent

(* C16: two taxa with the same name at different ranks are distinct nodes: the
   tree holds a node for each (two chains of keys of different lengths), the
   graph output gives the two different ids, and each of the two ids has a
   node-definition line of its own. *)
C16_SameNameDifferentRanks ==
  (pc = "rendered" /\ script = UpdateTree) =>
    \A p, q \in PathsOf(tree) :
      (Len(p) # Len(q) /\ p[Len(p)] = q[Len(q)]) =>
        /\ IdOf(p) # IdOf(q)
        /\ Cardinality(DefsOf(mermaid[1], IdOf(p)) \cup DefsOf(mermaid[1], IdOf(q))) = 2
        /\ DefsOf(mermaid[1], IdOf(p)) # {}
        /\ DefsOf(mermaid[1], IdOf(q)) # {}

\* a rendered tree with one name at two ranks, neither of them Species
C16_Witness ==
  /\ pc = "rendered" /\ script = UpdateTree
  /\ \E p, q \in PathsOf(tree) :
       /\ Len(p) < Len(q) /\ p[Len(p)] = q[Len(q)]
       /\ ~MostSpecific(RankOf(q))

(* C17: an empty Rank Schema is rejected as a configuration error before any
   record is processed: with an empty schema no record is deduplicated or
   folded into a tree, and no output text is produced. *)
C17_EmptySchemaRejected ==
  rank_keys = EmptySchema =>
    /\ pages # <<>> => ~Deduped
    /\ mermaid = <<>>
    /\ newick = <<>>

(* C18: each build or render call changes nothing but its return value: no
   call of build_tree, render_mermaid_with_links or build_newick leaves a
   cache entry, or any other state, that a later call can see.  The state a
   call reads besides its arguments is WIKI_CACHE: whatever a step did, a
   call made after it returns what the same call would have returned had the
   step left WIKI_CACHE as it was. *)
C18_NoStateAcrossCalls ==
  [][\A net \in NetModes :
       Body(render_mermaid_with_links(rank_keys, tree', rows', WIKI_CACHE', net, now').text)
       = Body(render_mermaid_with_links(rank_keys, tree', rows', WIKI_CACHE, net, now').text)]_vars

(* C19: in every tree build_tree returns, a node at depth d (the top-level
   nodes at depth 0) holds a value that some record carries for rank
   RANK_KEYS[d], and no node is deeper than the last rank.  A chain of n keys
   ends in a node at depth n - 1, whose rank is the n-th of the schema. *)
C19_DepthIsRank ==
  Built =>
    \A p \in PathsOf(tree) :
      /\ Len(p) <= Len(rank_keys)
      /\ \E i \in DOMAIN rows : ValueAt(rows[i], Len(p)) = p[Len(p)]

\* a built tree as deep as the schema, from records one of which has a gap
C19_Witness ==
  /\ Built
  /\ \E p \in PathsOf(tree) : Len(p) = Len(rank_keys)
  /\ \E i \in DOMAIN rows :
       Len(PathFrom(rank_keys, rows[i], 1)) < Len(PresentFrom(rows[i], 1))

====
